---- MODULE Spec2Model ----
(***************************************************************************)
(* A model of OpenTitanImporter (src/src/peakrdl_opentitan/importer.py):   *)
(* the translation of one OpenTitan HWJson document into a SystemRDL       *)
(* addrmap, as a state machine whose steps are the importer's methods and  *)
(* loop iterations.                                                        *)
(*                                                                         *)
(* Python values are modelled as follows.                                  *)
(*   dict      a function whose DOMAIN is the set of keys present          *)
(*   str       a sequence of one-character strings (where the code looks   *)
(*             inside the string), or a TLA+ string (access tokens, which  *)
(*             the code only compares and looks up)                        *)
(*   str|int   [t |-> "str", s |-> chars] or [t |-> "int", n |-> integer]  *)
(*   raise     the step ends the import with fatal set to the exception    *)
(***************************************************************************)
EXTENDS Integers, Sequences, FiniteSets, TLC

VARIABLES
    pc,          \* position of the importer: "idle" between import_file calls
    ncalls,      \* number of import_file calls made on this importer instance
    tree,        \* the document being imported (top-level keys)
    regwidth,    \* self.regwidth
    addroffset,  \* self.__addroffset
    node,        \* C_def, the addrmap under construction: name, signals, children
    roots,       \* number of addrmaps handed to register_root_component
    fatal,       \* "" or the exception that ended the current import
    warnings,    \* number of self.msg.warning calls during the current import
    queue,       \* register dicts still to be created from intr_regs['registers']
    nuser,       \* number of entries of tree['registers'] created so far
    reg_dict,    \* the register dict create_register is working on
    R,           \* the register instance under construction
    reg_args,    \* add_fields' arguments: default_swaccess, default_hwaccess, reg_resval
    cnt,         \* add_fields' loop index
    last,        \* the last iteration of add_fields' loop: its input and what it did
    previous     \* what the call before left in the instance: its exception, self.regwidth, self.__addroffset

vars == <<pc, ncalls, tree, regwidth, addroffset, node, roots, fatal, warnings,
          queue, nuser, reg_dict, R, reg_args, cnt, last, previous>>

-----------------------------------------------------------------------------
(* Bounds of the model.                                                    *)

\* import_file calls on one importer instance
MaxImports == 2
\* entries of tree['registers'] in one document
MaxRegs == 2
\* plain fields that precede the field under study in a register
MaxLead == 1

(* Program constants.                                                      *)

\* the most interrupts add_registers accepts
MaxInterrupts == 32
\* the register width import_ip uses when the document has no 'regwidth'
DefaultRegwidth == 32

-----------------------------------------------------------------------------
(* Strings.                                                                *)

None == "None"

Digits == <<"0", "1", "2", "3", "4", "5", "6", "7", "8", "9">>
DigitSet == {Digits[i] : i \in 1..10}
HexLetters == {"a", "b", "c", "d", "e", "f", "A", "B", "C", "D", "E", "F"}

\* str.isdigit() of one character
isdigit(c) == c \in DigitSet

DigitVal(c) == CHOOSE v \in 0..9 : Digits[v + 1] = c

HexVal(c) ==
    IF c \in DigitSet THEN DigitVal(c)
    ELSE CASE c \in {"a", "A"} -> 10
           [] c \in {"b", "B"} -> 11
           [] c \in {"c", "C"} -> 12
           [] c \in {"d", "D"} -> 13
           [] c \in {"e", "E"} -> 14
           [] c \in {"f", "F"} -> 15

Upper == <<"A", "B", "C", "D", "E", "F", "I", "L", "R", "T", "U", "V", "X">>
Lower == <<"a", "b", "c", "d", "e", "f", "i", "l", "r", "t", "u", "v", "x">>

lower_char(c) ==
    IF \E i \in 1..Len(Upper) : Upper[i] = c
    THEN Lower[CHOOSE i \in 1..Len(Upper) : Upper[i] = c]
    ELSE c

\* str.lower()
lower(s) == [i \in 1..Len(s) |-> lower_char(s[i])]

RECURSIVE str(_)
\* str(n) of a non-negative int
str(n) == IF n < 10 THEN <<Digits[n + 1]>> ELSE str(n \div 10) \o <<Digits[(n % 10) + 1]>>

RECURSIVE split(_, _)
\* s.split(sep) for a one-character separator
split(s, sep) ==
    IF \A i \in 1..Len(s) : s[i] # sep THEN <<s>>
    ELSE LET p == CHOOSE i \in 1..Len(s) : s[i] = sep /\ \A j \in 1..(i - 1) : s[j] # sep
         IN  <<SubSeq(s, 1, p - 1)>> \o split(SubSeq(s, p + 1, Len(s)), sep)

startswith(s, prefix) ==
    Len(s) >= Len(prefix) /\ SubSeq(s, 1, Len(prefix)) = prefix

-----------------------------------------------------------------------------
(* int(): the result is [ok |-> TRUE, n |-> value], or [ok |-> FALSE] for  *)
(* the ValueError int() raises.                                            *)

ValueError == [ok |-> FALSE, err |-> "ValueError"]
Ok(n) == [ok |-> TRUE, n |-> n]

RECURSIVE digits_value(_, _)
\* the value of a non-empty run of digits in the base
digits_value(s, base) ==
    IF Len(s) = 0 THEN 0
    ELSE digits_value(SubSeq(s, 1, Len(s) - 1), base) * base + HexVal(s[Len(s)])

all_digits(s, base) ==
    /\ Len(s) > 0
    /\ \A i \in 1..Len(s) :
          IF base = 16 THEN s[i] \in DigitSet \cup HexLetters ELSE s[i] \in DigitSet

\* int(s, base) without the sign: an optional 0x prefix in base 16
int_unsigned(s, base) ==
    LET body == IF base = 16 /\ (startswith(s, <<"0", "x">>) \/ startswith(s, <<"0", "X">>))
                THEN SubSeq(s, 3, Len(s)) ELSE s
    IN  IF all_digits(body, base) THEN Ok(digits_value(body, base)) ELSE ValueError

\* int(s, base) of a str: an optional sign, then the digits
int_str(s, base) ==
    IF Len(s) > 0 /\ s[1] \in {"-", "+"}
    THEN LET r == int_unsigned(SubSeq(s, 2, Len(s)), base)
         IN  IF r.ok THEN Ok(IF s[1] = "-" THEN 0 - r.n ELSE r.n) ELSE ValueError
    ELSE int_unsigned(s, base)

\* int(v) of a str or an int
int(v) == IF v.t = "int" THEN Ok(v.n) ELSE int_str(v.s, 10)

PyStr(s) == [t |-> "str", s |-> s]
PyInt(n) == [t |-> "int", n |-> n]

\* hex_or_dec_to_dec(num)
hex_or_dec_to_dec(num) ==
    IF num.t = "str"
    THEN IF startswith(num.s, <<"0", "x">>) THEN int_str(num.s, 16) ELSE int_str(num.s, 10)
    ELSE Ok(num.n)

-----------------------------------------------------------------------------
(* Python's unbounded non-negative integers under <<, >> and &, as         *)
(* sequences of bits, the least significant first.                         *)

RECURSIVE to_bits(_)
to_bits(n) == IF n = 0 THEN <<>> ELSE <<n % 2>> \o to_bits(n \div 2)

RECURSIVE from_bits(_)
from_bits(v) == IF Len(v) = 0 THEN 0 ELSE v[1] + 2 * from_bits(Tail(v))

\* 2**w - 1, for w >= 0
ones(w) == [i \in 1..w |-> 1]
\* v << k and v >> k, for k >= 0
shl(v, k) == [i \in 1..k |-> 0] \o v
shr(v, k) == SubSeq(v, k + 1, Len(v))
\* a & b
and(a, b) == [i \in 1..(IF Len(a) < Len(b) THEN Len(a) ELSE Len(b)) |-> a[i] * b[i]]

\* (reg_resval & ((2**bit_width-1) << bit_offset)) >> bit_offset
\* 2**bit_width is a float for a negative width, which << rejects (TypeError);
\* << rejects a negative shift count (ValueError).
MutNoShiftBack(reg_resval, bit_offset, bit_width) ==
    IF bit_width < 0 THEN [ok |-> FALSE, err |-> "TypeError"]
    ELSE IF bit_offset < 0 THEN [ok |-> FALSE, err |-> "ValueError"]
    ELSE Ok(from_bits(and(to_bits(reg_resval), ones(bit_width))))

inherited_reset(reg_resval, bit_offset, bit_width) ==
    IF bit_width < 0 THEN [ok |-> FALSE, err |-> "TypeError"]
    ELSE IF bit_offset < 0 THEN [ok |-> FALSE, err |-> "ValueError"]
    ELSE Ok(from_bits(shr(and(to_bits(reg_resval), shl(ones(bit_width), bit_offset)),
                          bit_offset)))

-----------------------------------------------------------------------------
(* The bit range of a field: lines 387-395 of add_fields.                  *)

\* [int(part) for part in bits.split(':')], then offset and width
ParseBitsHiLoSwapped(bits) ==
    LET parts == split(bits, ":")
        ints  == [i \in 1..Len(parts) |-> int_str(parts[i], 10)]
    IN  IF \E i \in 1..Len(parts) : ~ints[i].ok THEN ValueError
        ELSE IF Len(parts) = 2
             THEN [ok |-> TRUE, bit_offset |-> ints[1].n, bit_width |-> (ints[2].n - ints[1].n) + 1]
        ELSE IF Len(parts) = 1
             THEN [ok |-> TRUE, bit_offset |-> ints[1].n, bit_width |-> 1]
        ELSE [ok |-> FALSE, err |-> "AssertionError"]

parse_bits(bits) ==
    LET parts == split(bits, ":")
        ints  == [i \in 1..Len(parts) |-> int_str(parts[i], 10)]
    IN  IF \E i \in 1..Len(parts) : ~ints[i].ok THEN ValueError
        ELSE IF Len(parts) = 2
             THEN [ok |-> TRUE, bit_offset |-> ints[2].n, bit_width |-> (ints[1].n - ints[2].n) + 1]
        ELSE IF Len(parts) = 1
             THEN [ok |-> TRUE, bit_offset |-> ints[1].n, bit_width |-> 1]
        ELSE [ok |-> FALSE, err |-> "AssertionError"]

-----------------------------------------------------------------------------
(* typemaps.sw_from_access and typemaps.hw_from_access: the two tables of  *)
(* access tokens. A token outside its table (None included) is fatal.      *)

\* (sw, onwrite, onread) of a software access token
sw_from_access(token) ==
    CASE token = "ro"   -> [ok |-> TRUE, sw |-> "r",  onwrite |-> None,    onread |-> None]
      [] token = "rw"   -> [ok |-> TRUE, sw |-> "rw", onwrite |-> None,    onread |-> None]
      [] token = "wo"   -> [ok |-> TRUE, sw |-> "w",  onwrite |-> None,    onread |-> None]
      [] token = "rw1c" -> [ok |-> TRUE, sw |-> "rw", onwrite |-> "woclr", onread |-> None]
      [] token = "rc"   -> [ok |-> TRUE, sw |-> "r",  onwrite |-> None,    onread |-> "rclr"]
      [] OTHER          -> [ok |-> FALSE, err |-> "AccessError"]

\* (hw, we) of a hardware access token
hw_from_access(token) ==
    CASE token = "hro"  -> [ok |-> TRUE, hw |-> "r",  we |-> None]
      [] token = "hwo"  -> [ok |-> TRUE, hw |-> "w",  we |-> "True"]
      [] token = "hrw"  -> [ok |-> TRUE, hw |-> "rw", we |-> "True"]
      [] token = "none" -> [ok |-> TRUE, hw |-> "na", we |-> None]
      [] OTHER          -> [ok |-> FALSE, err |-> "AccessError"]

-----------------------------------------------------------------------------
(* Components of the SystemRDL model the importer builds.                  *)

NoObj == [valid |-> FALSE]

Has(d, key) == key \in DOMAIN d
Get(d, key, default) == IF key \in DOMAIN d THEN d[key] ELSE default

\* assign_property(C, prop, value)
assign_property(C, prop, value) == [C EXCEPT !.props = (prop :> value) @@ @]

\* instantiate_field(create_field_definition(name), name, bit_offset, bit_width)
instantiate_field(name, bit_offset, bit_width) ==
    [valid |-> TRUE, inst_name |-> name, bit_offset |-> bit_offset,
     bit_width |-> bit_width, props |-> <<>>]

\* instantiate_reg(create_reg_definition(name), name, addr_offset)
instantiate_reg(name, addr_offset) ==
    [valid |-> TRUE, inst_name |-> name, addr_offset |-> addr_offset,
     external |-> FALSE, children |-> <<>>, props |-> <<>>]

\* add_child(parent, child)
add_child(parent, child) == [parent EXCEPT !.children = Append(@, child)]

unsupported_field_props == {"alias_target", "tags", "mubi", "auto_split"}
unsupported_reg_props ==
    {"alias_target", "async", "sync", "hwre", "regwen", "tags", "shadowed",
     "update_err_alert", "storage_err_alert"}
unsupported_signal_props == {"type", "default"}

\* the number of warn_unsupported calls that warn
warn_unsupported(props, d) == Cardinality(props \cap DOMAIN d)

NoWarnings == [unsupported |-> 0, resval_x |-> 0, enum_digit |-> 0]
AddWarnings(a, b) ==
    [unsupported |-> a.unsupported + b.unsupported,
     resval_x    |-> a.resval_x + b.resval_x,
     enum_digit  |-> a.enum_digit + b.enum_digit]

-----------------------------------------------------------------------------
(* parse_enum(field_dict)                                                  *)

\* the member name after lines 457-459
enum_member_name(name) == IF isdigit(name[1]) THEN <<"_">> \o name ELSE name

\* field_dict['name'], which line 468 builds the type name from
enum_name_source(field_dict, field_name) ==
    IF Has(field_dict, "name") THEN [ok |-> TRUE, s |-> field_dict["name"]]
    ELSE [ok |-> FALSE, err |-> "KeyError"]

parse_enum(field_dict, field_name) ==
    LET enum == field_dict["enum"]
        empty(i) == Len(enum[i].name) = 0
        bad(i) == empty(i) \/ ~int(enum[i].value).ok
        src == enum_name_source(field_dict, field_name)
        \* one warning for every member reached whose name starts with a digit
        digit == Cardinality({i \in 1..Len(enum) :
                       /\ \A j \in 1..(i - 1) : ~bad(j)
                       /\ ~empty(i)
                       /\ isdigit(enum[i].name[1])})
    IN  IF \E i \in 1..Len(enum) : bad(i)
        THEN LET i == CHOOSE k \in 1..Len(enum) : bad(k) /\ \A j \in 1..(k - 1) : ~bad(j)
             IN  [ok |-> FALSE, enum_digit |-> digit,
                  err |-> IF empty(i) THEN "IndexError" ELSE "ValueError"]
        ELSE IF ~src.ok
        THEN [ok |-> FALSE, err |-> src.err, enum_digit |-> digit]
        ELSE [ok |-> TRUE, enum_digit |-> digit,
              enum_type |->
                  [type_name |-> lower(src.s) \o <<"_", "e">>,
                   members |-> [i \in 1..Len(enum) |->
                                   [name  |-> lower(enum_member_name(enum[i].name)),
                                    value |-> int(enum[i].value).n]]]]

-----------------------------------------------------------------------------
(* One iteration of the loop of add_fields (lines 377-451).                *)

\* line 425: the field is no storage element, so it gets no 'we'
MutSuppressAnyRo(swaccess, hwaccess) == swaccess = "ro"

we_suppressed(swaccess, hwaccess) ==
    swaccess = "ro" /\ (hwaccess = "hwo" \/ hwaccess = "hro")

\* lines 428-437: the reset value and the number of warnings given
field_reset(field_dict, reg_resval, bit_offset, bit_width) ==
    IF Has(field_dict, "resval")
    THEN LET resval == field_dict["resval"]
             is_x == resval.t = "str" /\ resval.s = <<"x">>
         IN  hex_or_dec_to_dec(IF is_x THEN PyInt(0) ELSE resval)
                 @@ [warned |-> IF is_x THEN 1 ELSE 0]
    ELSE inherited_reset(reg_resval, bit_offset, bit_width) @@ [warned |-> 0]

\* lines 379-382
field_name_of(field_dict, idx) ==
    IF Has(field_dict, "name") THEN field_dict["name"] ELSE <<"v", "a", "l">> \o str(idx)

\* assign_property(C, prop, value) if cond else None
assign_if(cond, C, prop, value) == IF cond THEN assign_property(C, prop, value) ELSE C

\* an iteration's outcome: the exception raised ("" for none), whether
\* instantiate_field was reached, the field as far as it was built, whether it
\* was added to the register, and the warnings given
Outcome(err, inst, F, w) ==
    [fatal |-> err, instantiated |-> inst, F |-> F, added |-> err = "", warned |-> w]

\* lines 446-451
iteration_enum(field_dict, field_name, F, w, enum) ==
    IF ~enum.ok
    THEN Outcome(enum.err, TRUE, F, [w EXCEPT !.enum_digit = enum.enum_digit])
    ELSE Outcome("", TRUE, assign_property(F, "encode", enum.enum_type),
                 [w EXCEPT !.enum_digit = enum.enum_digit])

\* lines 439-451
iteration_reset(args, field_dict, field_name, F, w, reset) ==
    IF ~reset.ok THEN Outcome(reset.err, TRUE, F, [w EXCEPT !.resval_x = reset.warned])
    ELSE IF ~Has(field_dict, "enum")
    THEN Outcome("", TRUE,
                 assign_if(args.hwqe = "true", assign_property(F, "reset", reset.n),
                           "swmod", TRUE),
                 [w EXCEPT !.resval_x = reset.warned])
    ELSE iteration_enum(field_dict, field_name,
                        assign_if(args.hwqe = "true", assign_property(F, "reset", reset.n),
                                  "swmod", TRUE),
                        [w EXCEPT !.resval_x = reset.warned],
                        parse_enum(field_dict, field_name))

\* lines 420-437
iteration_hw(args, field_dict, field_name, bits, F, w, swaccess, hwaccess, hw) ==
    IF ~hw.ok THEN Outcome(hw.err, TRUE, F, w)
    ELSE iteration_reset(args, field_dict, field_name,
             assign_if(~we_suppressed(swaccess, hwaccess) /\ hw.we # None,
                       assign_property(F, "hw", hw.hw), "we", hw.we),
             w,
             field_reset(field_dict, args.reg_resval, bits.bit_offset, bits.bit_width))

\* lines 411-420
iteration_sw(args, field_dict, field_name, bits, F, w, swaccess, hwaccess, sw) ==
    IF ~sw.ok THEN Outcome(sw.err, TRUE, F, w)
    ELSE iteration_hw(args, field_dict, field_name, bits,
             assign_if(sw.onwrite # None,
                       assign_if(sw.onread # None, assign_property(F, "sw", sw.sw),
                                 "onread", sw.onread),
                       "onwrite", sw.onwrite),
             w, swaccess, hwaccess, hw_from_access(hwaccess))

\* lines 397-411
iteration_field(args, field_dict, field_name, bits, w, swaccess, hwaccess) ==
    IF ~bits.ok THEN Outcome(bits.err, FALSE, NoObj, w)
    ELSE iteration_sw(args, field_dict, field_name, bits,
             assign_if(Has(field_dict, "desc"),
                       instantiate_field(lower(field_name), bits.bit_offset, bits.bit_width),
                       "desc", "desc"),
             w, swaccess, hwaccess, sw_from_access(swaccess))

\* lines 379-395
add_fields_iteration(args, field_dict, idx) ==
    iteration_field(args, field_dict, field_name_of(field_dict, idx),
        parse_bits(field_dict["bits"]),
        [NoWarnings EXCEPT
            !.unsupported = warn_unsupported(unsupported_field_props, field_dict)],
        Get(field_dict, "swaccess", args.default_swaccess),
        Get(field_dict, "hwaccess", args.default_hwaccess))

-----------------------------------------------------------------------------
(* The documents the model imports.                                        *)

\* interrupt k (0-based) of a document: one in four has no 'default'
Interrupt(k) ==
    LET base == [name |-> <<"I", "r", "q">> \o str(k), desc |-> "desc"]
    IN  CASE k % 4 = 0 -> base
          [] k % 4 = 1 -> base @@ [default |-> PyInt(1)]
          [] k % 4 = 2 -> base @@ [default |-> PyInt(0)]
          [] k % 4 = 3 -> base @@ [default |-> PyStr(<<"1">>)]

InterruptList(n) == [i \in 1..n |-> Interrupt(i - 1)]

\* the lengths of 'interrupt_list' tried
IntrCounts == {0, 1, 2, MaxInterrupts, MaxInterrupts + 1}

NameOpts == {<<>>, [name |-> <<>>], [name |-> <<"U", "a", "r", "t">>]}
RegwidthOpts ==
    {<<>>, [regwidth |-> PyInt(7)], [regwidth |-> PyInt(8)],
     [regwidth |-> PyStr(<<"1", "6">>)]}
InterruptOpts == {<<>>} \cup {[interrupt_list |-> InterruptList(n)] : n \in IntrCounts}

\* documents that vary the top-level keys
LayoutTrees == {n @@ w @@ i : n \in NameOpts, w \in RegwidthOpts, i \in InterruptOpts}

\* documents whose registers are what varies
FieldTrees ==
    {[name |-> <<"U", "a", "r", "t">>] @@ w @@ [interrupt_list |-> InterruptList(n)] :
        w \in {<<>>, [regwidth |-> PyInt(8)]}, n \in {0, 1}}

PlainField(bits) == [name |-> <<"E", "N">>, desc |-> "desc", bits |-> bits]

\* registers of the documents that vary the top-level keys
LayoutRegs ==
    { [name |-> <<"C", "t", "r", "l">>, desc |-> "desc", swaccess |-> "rw",
       hwaccess |-> "hro", fields |-> <<PlainField(<<"0">>)>>],
      [name |-> <<"D", "a", "t", "a">>, desc |-> "desc", swaccess |-> "ro",
       hwaccess |-> "hwo", hwext |-> "true", tags |-> "tags",
       fields |-> <<PlainField(<<"7", ":", "4">>), PlainField(<<"3">>)>>],
      [name |-> <<"B", "a", "d">>, desc |-> "desc", swaccess |-> "rw",
       hwaccess |-> "hro",
       fields |-> <<PlainField(<<"0">>), PlainField(<<"1", ":", "2", ":", "3">>)>>],
      [name |-> <<"T", "o", "k">>, desc |-> "desc", swaccess |-> "zz",
       hwaccess |-> "hro", fields |-> <<PlainField(<<"0">>)>>] }

\* the field that precedes the field under study
LeadField == [name |-> <<"L", "d">>, desc |-> "desc", bits |-> <<"1">>]

RECURSIVE Leads(_)
Leads(n) == IF n = 0 THEN <<>> ELSE Leads(n - 1) \o <<LeadField>>

BitsStrings ==
    { <<"0">>, <<"3">>, <<"7", ":", "4">>, <<"6", ":", "0">>, <<"9", ":", "4">>,
      <<"3", "1", ":", "0">>, <<"3", "2", ":", "3", "1">>, <<"2", ":", "3">>,
      <<"0", ":", "3">>, <<"-", "1">>, <<"1", ":", "2", ":", "3">>, <<"a">>,
      <<"3", ":">>, <<>> }

RegResvalOpts ==
    { <<>>, [resval |-> PyStr(<<"0", "x", "a", "5">>)], [resval |-> PyInt(90)],
      [resval |-> PyStr(<<"1", "6", "5">>)], [resval |-> PyStr(<<"x">>)] }

FieldResvalOpts ==
    { <<>>, [resval |-> PyInt(3)], [resval |-> PyStr(<<"5">>)],
      [resval |-> PyStr(<<"0", "x", "1", "f">>)], [resval |-> PyStr(<<"x">>)],
      [resval |-> PyStr(<<"0", "X", "1", "F">>)] }

EnumOpts ==
    { [enum |-> <<[name |-> <<"A">>, value |-> PyInt(0), desc |-> "desc"]>>],
      [enum |-> <<[name |-> <<"0", "_", "E", "R", "R">>, value |-> PyInt(0), desc |-> "desc"],
                  [name |-> <<"D">>, value |-> PyStr(<<"1">>), desc |-> "desc"]>>],
      [enum |-> <<[name |-> <<"1", "A">>, value |-> PyInt(1), desc |-> "desc"],
                  [name |-> <<"B">>, value |-> PyInt(2), desc |-> "desc"],
                  [name |-> <<"3", "C">>, value |-> PyInt(3), desc |-> "desc"]>>],
      [enum |-> <<[name |-> <<"7">>, value |-> PyStr(<<"x">>), desc |-> "desc"],
                  [name |-> <<"8">>, value |-> PyInt(1), desc |-> "desc"]>>] }

BaseReg == [name |-> <<"R", "e", "g">>, desc |-> "desc", swaccess |-> "rw", hwaccess |-> "hro"]
BaseField == [name |-> <<"F", "l", "d">>, desc |-> "desc", bits |-> <<"0">>]

opt(key, values) == {<<>>} \cup {(key :> v) : v \in values}

\* fields that vary the bit range, with and without a reset value of their own
BitsFields ==
    {[desc |-> "desc", name |-> <<"F", "l", "d">>, bits |-> b] @@ r :
        b \in BitsStrings, r \in {<<>>, [resval |-> PyInt(1)]}}
BitsSlice == {[reg |-> BaseReg @@ r, field |-> f] : r \in RegResvalOpts, f \in BitsFields}

\* registers and fields that vary the access tokens
AccessSlice ==
    {[reg   |-> [name |-> <<"R", "e", "g">>, desc |-> "desc"] @@ rsw @@ rhw,
      field |-> BaseField @@ fsw @@ fhw] :
        rsw \in opt("swaccess", {"ro", "rw"}),
        rhw \in opt("hwaccess", {"hro", "hrw", "hwo"}),
        fsw \in opt("swaccess", {"ro", "wo", "rc", "zz"}),
        fhw \in opt("hwaccess", {"hro", "hwo", "hrw", "zz"})}

\* registers and fields that vary the reset value
ResvalSlice ==
    {[reg |-> BaseReg @@ r, field |-> [BaseField EXCEPT !.bits = b] @@ f] :
        r \in RegResvalOpts, f \in FieldResvalOpts, b \in {<<"0">>, <<"7", ":", "4">>}}

\* fields with an enumeration, named or not
EnumSlice ==
    {[reg |-> BaseReg, field |-> [desc |-> "desc", bits |-> <<"1", ":", "0">>] @@ n @@ e @@ t] :
        n \in opt("name", {<<"M", "o", "d", "e">>}), e \in EnumOpts,
        t \in opt("tags", {"tags"})}

\* registers that vary 'hwext' and 'hwqe'
ExtSlice ==
    {[reg |-> BaseReg @@ x @@ q, field |-> BaseField] :
        x \in opt("hwext", {"true", "false"}), q \in opt("hwqe", {"true"})}

\* registers of the documents that vary one register: the field under study
\* comes after 0..MaxLead other fields
FieldRegs ==
    {c.reg @@ [fields |-> Leads(n) \o <<c.field>>] :
        c \in BitsSlice \cup AccessSlice \cup ResvalSlice \cup EnumSlice \cup ExtSlice,
        n \in 0..MaxLead}

-----------------------------------------------------------------------------
(* The importer.                                                           *)

Init ==
    /\ pc = "idle"
    /\ ncalls = 0
    /\ tree = <<>>
    /\ regwidth = None
    /\ addroffset = 0
    /\ node = NoObj
    /\ roots = 0
    /\ fatal = ""
    /\ warnings = NoWarnings
    /\ queue = <<>>
    /\ nuser = 0
    /\ reg_dict = NoObj
    /\ R = NoObj
    /\ reg_args = NoObj
    /\ cnt = 0
    /\ last = NoObj
    /\ previous = [fatal |-> "", regwidth |-> None, addroffset |-> 0]

\* an exception leaves import_file: the importer is idle again
MutRaiseContinues(err) ==
    /\ fatal' = err
    /\ pc' = pc

Raise(err) ==
    /\ fatal' = err
    /\ pc' = "idle"

\* line 68: the address counter import_file starts a document with, whatever
\* the call before left in it
MutAddroffsetKept(left) == left

initial_addroffset(left) == 0

\* import_file(path): the document is loaded, the width and the address
\* counter are reset, and import_ip is entered
import_file(Trees) ==
    /\ pc = "idle"
    /\ ncalls < MaxImports
    /\ \E t \in Trees : tree' = t
    /\ ncalls' = ncalls + 1
    /\ previous' = [fatal |-> fatal, regwidth |-> regwidth, addroffset |-> addroffset]
    /\ regwidth' = None
    /\ addroffset' = initial_addroffset(addroffset)
    /\ pc' = "import_ip"
    /\ fatal' = ""
    /\ warnings' = NoWarnings
    /\ node' = NoObj
    /\ queue' = <<>>
    /\ nuser' = 0
    /\ reg_dict' = NoObj
    /\ R' = NoObj
    /\ reg_args' = NoObj
    /\ cnt' = 0
    /\ last' = NoObj
    /\ UNCHANGED roots

\* create_signal(sig_dict, 'interrupt'): the signal instance
create_signal(sig_dict) ==
    [inst_name |-> <<"i", "n", "t", "r", "_">> \o sig_dict["name"] \o <<"_", "o">>]

\* what create_signal leaves in the interrupt's dict
signal_dict_after(sig_dict) ==
    (IF Has(sig_dict, "width") THEN <<>> ELSE [signalwidth |-> 1])
        @@ (IF Has(sig_dict, "output") THEN <<>> ELSE [output |-> TRUE])
        @@ sig_dict

\* int(tree['regwidth']), or 32
document_regwidth(t) ==
    IF Has(t, "regwidth") THEN int(t["regwidth"]) ELSE Ok(DefaultRegwidth)

\* import_ip up to the call of add_registers: the name is checked, the addrmap
\* is created, add_signals adds a signal for every interrupt, the register
\* width is set
import_ip ==
    /\ pc = "import_ip"
    /\ UNCHANGED <<previous, ncalls, addroffset, roots, queue, nuser, reg_dict, R, reg_args, cnt, last>>
    /\ IF ~Has(tree, "name")
       THEN Raise("KeyError") /\ UNCHANGED <<tree, regwidth, node, warnings>>
       ELSE IF Len(tree["name"]) = 0
       THEN Raise("RDLCompileError") /\ UNCHANGED <<tree, regwidth, node, warnings>>
       ELSE
       LET intrs == Get(tree, "interrupt_list", <<>>)
           C_def == [valid |-> TRUE, type_name |-> tree["name"], registered |-> FALSE,
                     signals |-> [i \in 1..Len(intrs) |-> create_signal(intrs[i])],
                     children |-> <<>>]
           warned == Cardinality({i \in 1..Len(intrs) : Has(intrs[i], "default")})
           width == document_regwidth(tree)
       IN  /\ node' = C_def
           /\ warnings' = [warnings EXCEPT !.unsupported = @ + warned]
           /\ tree' = IF Has(tree, "interrupt_list")
                      THEN [tree EXCEPT !["interrupt_list"] =
                               [i \in 1..Len(intrs) |-> signal_dict_after(intrs[i])]]
                      ELSE tree
           /\ IF width.ok
              THEN regwidth' = width.n /\ pc' = "add_registers" /\ UNCHANGED fatal
              ELSE Raise(width.err) /\ UNCHANGED regwidth

\* the three register dicts add_registers builds from the interrupt list
MutEnableBeforeState(intrs) ==
    LET base(i) == [name |-> intrs[i]["name"], desc |-> intrs[i]["desc"], bits |-> str(i - 1)]
        status(i) == base(i) @@ [resval |-> Get(intrs[i], "default", PyInt(0))]
    IN  << [name |-> <<"i", "n", "t", "r", "_", "e", "n", "a", "b", "l", "e">>,
            desc |-> "desc", swaccess |-> "rw", hwaccess |-> "hro",
            fields |-> [i \in 1..Len(intrs) |-> base(i)]],
           [name |-> <<"i", "n", "t", "r", "_", "s", "t", "a", "t", "e">>,
            desc |-> "desc", swaccess |-> "rw1c", hwaccess |-> "hrw",
            fields |-> [i \in 1..Len(intrs) |-> status(i)]],
           [name |-> <<"i", "n", "t", "r", "_", "t", "e", "s", "t">>,
            desc |-> "desc", swaccess |-> "wo", hwaccess |-> "hro", hwext |-> "true",
            fields |-> [i \in 1..Len(intrs) |-> base(i)]] >>

intr_regs(intrs) ==
    LET base(i) == [name |-> intrs[i]["name"], desc |-> intrs[i]["desc"], bits |-> str(i - 1)]
        status(i) == base(i) @@ [resval |-> Get(intrs[i], "default", PyInt(0))]
    IN  << [name |-> <<"i", "n", "t", "r", "_", "s", "t", "a", "t", "e">>,
            desc |-> "desc", swaccess |-> "rw1c", hwaccess |-> "hrw",
            fields |-> [i \in 1..Len(intrs) |-> status(i)]],
           [name |-> <<"i", "n", "t", "r", "_", "e", "n", "a", "b", "l", "e">>,
            desc |-> "desc", swaccess |-> "rw", hwaccess |-> "hro",
            fields |-> [i \in 1..Len(intrs) |-> base(i)]],
           [name |-> <<"i", "n", "t", "r", "_", "t", "e", "s", "t">>,
            desc |-> "desc", swaccess |-> "wo", hwaccess |-> "hro", hwext |-> "true",
            fields |-> [i \in 1..Len(intrs) |-> base(i)]] >>

\* line 276: the assertion on the number of interrupts
MutLimitOffByOne(n) == n < MaxInterrupts

interrupts_supported(n) == n <= MaxInterrupts

\* add_registers up to its loops: the limit is asserted and the interrupt
\* registers' dicts are built
add_registers ==
    /\ pc = "add_registers"
    /\ UNCHANGED <<previous, ncalls, tree, regwidth, addroffset, node, roots, warnings, nuser,
                   reg_dict, R, reg_args, cnt, last>>
    /\ IF ~Has(tree, "interrupt_list")
       THEN Raise("KeyError") /\ UNCHANGED queue
       ELSE IF ~interrupts_supported(Len(tree["interrupt_list"]))
       THEN Raise("AssertionError") /\ UNCHANGED queue
       ELSE /\ queue' = intr_regs(tree["interrupt_list"])
            /\ pc' = "registers"
            /\ UNCHANGED fatal

\* the address counter after a register (line 344)
MutOffsetInBits(offset, width) == offset + width

next_addroffset(offset, width) == offset + width \div 8

\* create_register(reg) up to the loop of add_fields
create_register(reg) ==
    LET R0 == instantiate_reg(lower(reg["name"]), addroffset)
        R1 == assign_property(R0, "desc", reg["desc"])
        resval == IF Has(reg, "resval") THEN hex_or_dec_to_dec(reg["resval"]) ELSE Ok(0)
        R2 == IF Get(reg, "hwext", None) = "true" THEN [R1 EXCEPT !.external = TRUE] ELSE R1
    IN  /\ reg_dict' = reg
        /\ warnings' = [warnings EXCEPT
                           !.unsupported = @ + warn_unsupported(unsupported_reg_props, reg)]
        /\ addroffset' = next_addroffset(addroffset, regwidth)
        /\ cnt' = 0
        /\ last' = NoObj
        /\ IF resval.ok
           THEN /\ R' = R2
                /\ reg_args' = [default_swaccess |-> Get(reg, "swaccess", None),
                                default_hwaccess |-> Get(reg, "hwaccess", None),
                                reg_resval |-> resval.n,
                                hwqe |-> Get(reg, "hwqe", None)]
                /\ pc' = "add_fields"
                /\ UNCHANGED fatal
           ELSE /\ R' = R1
                /\ reg_args' = NoObj
                /\ Raise(resval.err)

\* the loop over intr_regs['registers'] (lines 327-329) reaches its next register
create_register_intr ==
    /\ pc = "registers"
    /\ queue # <<>>
    /\ queue' = Tail(queue)
    /\ create_register(Head(queue))
    /\ UNCHANGED <<previous, ncalls, tree, regwidth, node, roots, nuser>>

\* the loop over tree['registers'] (lines 331-333) reaches its next register
create_register_user(Regs, max) ==
    /\ pc = "registers"
    /\ queue = <<>>
    /\ nuser < max
    /\ nuser' = nuser + 1
    /\ \E reg \in Regs : create_register(reg)
    /\ UNCHANGED <<previous, ncalls, tree, regwidth, node, roots, queue>>

\* one iteration of the loop of add_fields
add_fields ==
    /\ pc = "add_fields"
    /\ cnt < Len(reg_dict["fields"])
    /\ LET field_dict == reg_dict["fields"][cnt + 1]
           it == add_fields_iteration(reg_args, field_dict, cnt)
       IN  /\ last' = [valid |-> TRUE, cnt |-> cnt, field_dict |-> field_dict] @@ it
           /\ warnings' = AddWarnings(warnings, it.warned)
           /\ IF it.fatal = ""
              THEN /\ R' = add_child(R, it.F)
                   /\ cnt' = cnt + 1
                   /\ UNCHANGED <<pc, fatal>>
              ELSE /\ Raise(it.fatal)
                   /\ UNCHANGED <<R, cnt>>
    /\ UNCHANGED <<previous, ncalls, tree, regwidth, addroffset, node, roots, queue, nuser,
                   reg_dict, reg_args>>

\* add_fields and create_register return; add_registers adds the register
\* to the addrmap (lines 329 and 333)
add_register_child ==
    /\ pc = "add_fields"
    /\ cnt = Len(reg_dict["fields"])
    /\ node' = add_child(node, R)
    /\ pc' = "registers"
    /\ UNCHANGED <<previous, ncalls, tree, regwidth, addroffset, roots, fatal, warnings, queue,
                   nuser, reg_dict, R, reg_args, cnt, last>>

\* add_registers returns after the last entry of tree['registers'];
\* import_ip registers the addrmap (line 160)
register_root_component ==
    /\ pc = "registers"
    /\ queue = <<>>
    /\ node' = [node EXCEPT !.registered = TRUE]
    /\ roots' = roots + 1
    /\ pc' = "idle"
    /\ UNCHANGED <<previous, ncalls, tree, regwidth, addroffset, fatal, warnings, queue, nuser,
                   reg_dict, R, reg_args, cnt, last>>

Step(Trees, Regs, max) ==
    \/ import_file(Trees)
    \/ import_ip
    \/ add_registers
    \/ create_register_intr
    \/ create_register_user(Regs, max)
    \/ add_fields
    \/ add_register_child
    \/ register_root_component

\* documents that vary the top-level keys, with up to MaxRegs plain registers
Next == Step(LayoutTrees, LayoutRegs, MaxRegs)
Spec == Init /\ [][Next]_vars

\* documents with one register, which varies
NextField == Step(FieldTrees, FieldRegs, 1)
SpecField == Init /\ [][NextField]_vars

-----------------------------------------------------------------------------
(* What the properties below talk about.                                   *)

\* the registers create_register has instantiated for the current document, in
\* order: those added to the addrmap, then the one not added yet (or never
\* added, when an exception ended the import)
Registers ==
    IF ~node.valid THEN <<>>
    ELSE node.children \o
         (IF R.valid /\ pc # "registers" /\ ~node.registered THEN <<R>> ELSE <<>>)

\* the document's register width in bits
DocWidth == IF Has(tree, "regwidth") THEN int(tree["regwidth"]).n ELSE 32

Interrupts == Get(tree, "interrupt_list", <<>>)

IntrRegNames ==
    << <<"i", "n", "t", "r", "_", "s", "t", "a", "t", "e">>,
       <<"i", "n", "t", "r", "_", "e", "n", "a", "b", "l", "e">>,
       <<"i", "n", "t", "r", "_", "t", "e", "s", "t">> >>

\* the 'default' of interrupt k (0-based) as a number, 0 when it has none
IntrDefaultValue(k) == IF k % 4 \in {1, 3} THEN 1 ELSE 0

Assigned(C, prop) == prop \in DOMAIN C.props

-----------------------------------------------------------------------------
(* C1 *)

OffsetsFollowStride ==
    \A k \in 1..Len(Registers) :
        Registers[k].addr_offset = (k - 1) * (DocWidth \div 8)

OffsetsStrictlyIncrease ==
    \A j, k \in 1..Len(Registers) :
        j < k => Registers[j].addr_offset < Registers[k].addr_offset

-----------------------------------------------------------------------------
(* C2 *)

\* field i of an interrupt register: one bit at offset i - 1, named after
\* interrupt i
IntrFieldPlaced(reg, i) ==
    /\ reg.children[i].bit_offset = i - 1
    /\ reg.children[i].bit_width = 1
    /\ reg.children[i].inst_name = lower(Interrupts[i]["name"])

IntrFieldAccess(F, swtoken, hwtoken, reset) ==
    /\ F.props["sw"] = sw_from_access(swtoken).sw
    /\ Assigned(F, "onwrite") = (sw_from_access(swtoken).onwrite # None)
    /\ Assigned(F, "onwrite") => F.props["onwrite"] = sw_from_access(swtoken).onwrite
    /\ ~Assigned(F, "onread")
    /\ F.props["hw"] = hw_from_access(hwtoken).hw
    /\ F.props["reset"] = reset

\* C2: for every interrupt list of length n <= 32, intr_state, intr_enable and
\* intr_test are emitted in that order before any user register; each has
\* exactly n one-bit fields, field i at bit i and named after interrupt i;
\* intr_state fields resolve from rw1c/hrw with the interrupt's default (or 0)
\* as reset, intr_enable fields from rw/hro with reset 0, intr_test fields from
\* wo/hro, and intr_test is external.
C2_InterruptRegisters ==
    node.valid =>
        /\ nuser > 0 => Len(node.children) >= 3
        /\ \A k \in 1..Len(Registers) :
               k <= 3 =>
                   /\ Registers[k].inst_name = IntrRegNames[k]
                   /\ Registers[k].external = (k = 3)
                   /\ Len(Registers[k].children) <= Len(Interrupts)
                   /\ \A i \in 1..Len(Registers[k].children) :
                          /\ IntrFieldPlaced(Registers[k], i)
                          /\ IntrFieldAccess(Registers[k].children[i],
                                 <<"rw1c", "rw", "wo">>[k], <<"hrw", "hro", "hro">>[k],
                                 IF k = 1 THEN IntrDefaultValue(i - 1) ELSE 0)
        /\ \A k \in 1..Len(node.children) :
               k <= 3 => Len(node.children[k].children) = Len(Interrupts)

\* a user register follows the three interrupt registers of 32 fields each
C2_Witness ==
    /\ node.valid
    /\ nuser > 0
    /\ Len(node.children) > 3
    /\ Len(Interrupts) = 32
    /\ node.children[1].children[2].props["reset"] = 1
    /\ node.children[3].children[32].bit_offset = 31

-----------------------------------------------------------------------------
(* C3 *)

C3_WitnessTooMany ==
    /\ node.valid
    /\ Len(Interrupts) = 33
    /\ fatal = "AssertionError"

-----------------------------------------------------------------------------
(* C4 *)

\* an optional sign and one or more decimal digits
IsInteger(s) ==
    LET body == IF Len(s) > 0 /\ s[1] \in {"-", "+"} THEN Tail(s) ELSE s
    IN  Len(body) > 0 /\ \A i \in 1..Len(body) : body[i] \in DigitSet

Colons(s) == {i \in 1..Len(s) : s[i] = ":"}

\* the text before and after the only colon of s
BeforeColon(s) == SubSeq(s, 1, (CHOOSE i \in Colons(s) : TRUE) - 1)
AfterColon(s) == SubSeq(s, (CHOOSE i \in Colons(s) : TRUE) + 1, Len(s))

IsRange(s) ==
    Cardinality(Colons(s)) = 1 /\ IsInteger(BeforeColon(s)) /\ IsInteger(AfterColon(s))
IsSingleBit(s) == Cardinality(Colons(s)) = 0 /\ IsInteger(s)

\* C4: a field whose 'bits' is "hi:lo" is instantiated with bit_offset lo and
\* bit_width hi - lo + 1, and one whose 'bits' is "n" with bit_offset n and
\* bit_width 1; any other 'bits' is a fatal parse error, and no field is
\* instantiated for it.
C4_BitRange ==
    last.valid =>
        LET bits == last.field_dict["bits"]
        IN  /\ IsRange(bits) =>
                /\ last.instantiated
                /\ last.F.bit_offset = int_str(AfterColon(bits), 10).n
                /\ last.F.bit_width =
                       int_str(BeforeColon(bits), 10).n - int_str(AfterColon(bits), 10).n + 1
            /\ IsSingleBit(bits) =>
                /\ last.instantiated
                /\ last.F.bit_offset = int_str(bits, 10).n
                /\ last.F.bit_width = 1
            /\ ~IsRange(bits) /\ ~IsSingleBit(bits) =>
                /\ ~last.instantiated
                /\ ~last.F.valid
                /\ ~last.added
                /\ last.fatal \in {"ValueError", "AssertionError"}
                /\ fatal = last.fatal
                /\ pc = "idle"

\* the field of bits "7:4" was added at offset 4, four bits wide
C4_Witness ==
    /\ last.valid
    /\ last.field_dict["bits"] = <<"7", ":", "4">>
    /\ last.added
    /\ last.F.bit_offset = 4
    /\ last.F.bit_width = 4

\* a 'bits' of three parts ended the import
C4_WitnessFatal ==
    /\ last.valid
    /\ last.field_dict["bits"] = <<"1", ":", "2", ":", "3">>
    /\ fatal = "AssertionError"

-----------------------------------------------------------------------------
(* C5 *)

RECURSIVE ShiftRight(_, _)
\* n >> k
ShiftRight(n, k) == IF k = 0 THEN n ELSE ShiftRight(n \div 2, k - 1)

RECURSIVE LowBits(_, _)
\* n & ((1 << w) - 1)
LowBits(n, w) == IF w = 0 \/ n = 0 THEN 0 ELSE (n % 2) + 2 * LowBits(n \div 2, w - 1)

\* the numbers the reset values of the documents stand for ('x' stands for 0)
ResvalNumber(v) ==
    CASE v = PyInt(0) -> 0
      [] v = PyInt(1) -> 1
      [] v = PyInt(3) -> 3
      [] v = PyInt(90) -> 90
      [] v = PyStr(<<"1">>) -> 1
      [] v = PyStr(<<"5">>) -> 5
      [] v = PyStr(<<"1", "6", "5">>) -> 165
      [] v = PyStr(<<"0", "x", "1", "f">>) -> 31
      [] v = PyStr(<<"0", "x", "a", "5">>) -> 165
      [] v = PyStr(<<"x">>) -> 0

\* decimal, 0x-prefixed hexadecimal, or 'x'
ResvalAccepted(v) ==
    v \in {PyInt(0), PyInt(1), PyInt(3), PyInt(90), PyStr(<<"1">>), PyStr(<<"5">>),
           PyStr(<<"1", "6", "5">>), PyStr(<<"0", "x", "1", "f">>),
           PyStr(<<"0", "x", "a", "5">>), PyStr(<<"x">>)}

\* C5: a field without 'resval' is given the reset
\* (register_resval >> bit_offset) & ((1 << bit_width) - 1), with
\* register_resval the register's parsed 'resval' or 0; a field with a 'resval'
\* of its own never takes its reset from the register.
C5_ResetInherited ==
    last.valid /\ last.F.valid /\ Assigned(last.F, "reset") =>
        IF Has(last.field_dict, "resval")
        THEN ResvalAccepted(last.field_dict["resval"]) =>
                 last.F.props["reset"] = ResvalNumber(last.field_dict["resval"])
        ELSE last.F.props["reset"] =
                 LowBits(ShiftRight(IF Has(reg_dict, "resval")
                                    THEN ResvalNumber(reg_dict["resval"]) ELSE 0,
                                    last.F.bit_offset),
                         last.F.bit_width)

\* bits 7:4 of the register's reset value 0xa5
C5_Witness ==
    /\ last.valid
    /\ last.added
    /\ ~Has(last.field_dict, "resval")
    /\ Has(reg_dict, "resval")
    /\ reg_dict["resval"] = PyStr(<<"0", "x", "a", "5">>)
    /\ last.F.bit_offset = 4
    /\ last.F.bit_width = 4
    /\ last.F.props["reset"] = 10

-----------------------------------------------------------------------------
(* C6 *)

\* C6: when a fatal condition occurs the translation of the document stops
\* there: the failing step emits nothing, nothing is emitted after it (the
\* importer's next step is the next import_file call), and the document's
\* addrmap is never registered.
C6_FatalStops ==
    [][ /\ fatal = "" /\ fatal' # "" =>
            /\ node' = node
            /\ roots' = roots
            /\ pc' = "idle"
            /\ ~(node'.valid /\ node'.registered)
        /\ fatal # "" =>
            /\ pc = "idle"
            /\ ncalls' = ncalls + 1
            /\ pc' = "import_ip"
            /\ roots' = roots ]_vars

\* an unparsable bit range ended an import after registers had been added
C6_Witness ==
    /\ fatal = "AssertionError"
    /\ last.valid
    /\ ~last.instantiated
    /\ node.valid
    /\ Len(node.signals) > 0
    /\ Len(node.children) > 3
    /\ ~node.registered

-----------------------------------------------------------------------------
(* C7 *)

DigitLed(enum) == {i \in 1..Len(enum) : isdigit(enum[i].name[1])}

EnumWellFormed(enum) ==
    \A i \in 1..Len(enum) : Len(enum[i].name) > 0 /\ int(enum[i].value).ok

\* C7: every field with an 'enum' list, its name declared or defaulted to
\* val<N>, gets an enumeration type named <lowercased field name>_e whose
\* members keep their order and have lowercased names; a member whose name
\* begins with a digit gets an underscore prepended, with exactly one warning
\* and no fatal error.
C7_Enum ==
    /\ last.valid
    /\ last.F.valid
    /\ Assigned(last.F, "reset")
    /\ Has(last.field_dict, "enum")
    /\ EnumWellFormed(last.field_dict["enum"])
    => LET enum == last.field_dict["enum"]
       IN  /\ last.fatal = ""
           /\ Assigned(last.F, "encode")
           /\ last.F.props["encode"].type_name =
                  lower(field_name_of(last.field_dict, last.cnt)) \o <<"_", "e">>
           /\ Len(last.F.props["encode"].members) = Len(enum)
           /\ \A i \in 1..Len(enum) :
                  last.F.props["encode"].members[i].name =
                      lower(IF i \in DigitLed(enum) THEN <<"_">> \o enum[i].name
                            ELSE enum[i].name)
           /\ last.warned.enum_digit = Cardinality(DigitLed(enum))

-----------------------------------------------------------------------------
(* C8 *)

\* the field's token if it has one, else the register's
EffectiveToken(key) ==
    IF Has(last.field_dict, key) THEN last.field_dict[key] ELSE Get(reg_dict, key, None)

\* C8: with the effective software token 'ro' and the effective hardware token
\* 'hwo' or 'hro', 'we' is never assigned to the field, even when
\* hw_from_access returns a write enable; in every other case 'we' is assigned
\* exactly when hw_from_access returns a write enable.
C8_WriteEnable ==
    last.valid /\ last.F.valid /\ Assigned(last.F, "hw") =>
        IF EffectiveToken("swaccess") = "ro" /\ EffectiveToken("hwaccess") \in {"hwo", "hro"}
        THEN ~Assigned(last.F, "we")
        ELSE /\ Assigned(last.F, "we") = (hw_from_access(EffectiveToken("hwaccess")).we # None)
             /\ Assigned(last.F, "we") =>
                    last.F.props["we"] = hw_from_access(EffectiveToken("hwaccess")).we

\* a read-only field that the hardware only writes got no 'we', though the
\* table has one for 'hwo'
C8_Witness ==
    /\ last.valid
    /\ last.added
    /\ EffectiveToken("swaccess") = "ro"
    /\ EffectiveToken("hwaccess") = "hwo"
    /\ hw_from_access("hwo").we # None
    /\ ~Assigned(last.F, "we")

\* a read-only field that the hardware reads and writes got its 'we'
C8_WitnessAssigned ==
    /\ last.valid
    /\ last.added
    /\ EffectiveToken("swaccess") = "ro"
    /\ EffectiveToken("hwaccess") = "hrw"
    /\ Assigned(last.F, "we")

-----------------------------------------------------------------------------
(* C9 *)

\* C9: every field emitted in a successfully translated document satisfies
\* bit_offset + bit_width <= register width (the document's regwidth, default
\* 32), with bit_width >= 1, for any 'bits' the translator accepts.
C9_FieldFits ==
    node.valid /\ node.registered =>
        \A k \in 1..Len(node.children) :
            \A i \in 1..Len(node.children[k].children) :
                LET F == node.children[k].children[i]
                IN  F.bit_width >= 1 /\ F.bit_offset + F.bit_width <= DocWidth

-----------------------------------------------------------------------------
(* C10 *)

\* C10: wherever a 'resval' may appear (register or field) a decimal value, a
\* 0x-prefixed hexadecimal string and 'x' are accepted: decimal and hex yield
\* their value, and 'x' yields 0 with a non-fatal warning, after which the
\* translation continues.
C10_Resval ==
    /\ Has(reg_dict, "resval") /\ ResvalAccepted(reg_dict["resval"]) =>
           /\ Has(reg_args, "reg_resval")
           /\ reg_args.reg_resval = ResvalNumber(reg_dict["resval"])
    /\ /\ last.valid
       /\ last.F.valid
       /\ Assigned(last.F, "hw")
       /\ Has(last.field_dict, "resval")
       /\ ResvalAccepted(last.field_dict["resval"])
       => /\ Assigned(last.F, "reset")
          /\ last.F.props["reset"] = ResvalNumber(last.field_dict["resval"])
          /\ last.warned.resval_x =
                 (IF last.field_dict["resval"] = PyStr(<<"x">>) THEN 1 ELSE 0)
          /\ ~Has(last.field_dict, "enum") => last.fatal = "" /\ last.added

-----------------------------------------------------------------------------
(* C11 *)

\* the import is past the point where import_ip sets the register width
WidthSet == pc \in {"add_registers", "registers", "add_fields"}

\* C11: for any sequence of import_file calls on one importer instance,
\* including calls that follow an import aborted by a fatal error part-way
\* through its registers, the address counter and the register width are
\* reset at the start of each call: import_ip is entered with the counter at
\* 0 and no width, the first register of each document is at offset 0, and
\* every offset emitted, like the counter itself, is determined by the
\* current document (its regwidth and the number of registers emitted so
\* far) and by nothing the earlier calls left behind.
C11_ResetPerCall ==
    /\ pc = "import_ip" => addroffset = 0 /\ regwidth = None
    /\ WidthSet => regwidth = DocWidth
    /\ WidthSet => addroffset = Len(Registers) * (DocWidth \div 8)
    /\ Len(Registers) > 0 =>
           /\ Registers[1].addr_offset = 0
           /\ \A k \in 1..Len(Registers) :
                  Registers[k].addr_offset = (k - 1) * (DocWidth \div 8)

\* the second call on an instance whose first import was aborted after its
\* fourth register, with the counter left at 16 and a width of 32: the
\* registers of the 16-bit document imported next start at 0 again
C11_Witness ==
    /\ ncalls = 2
    /\ previous.fatal # ""
    /\ previous.addroffset = 16
    /\ previous.regwidth = 32
    /\ node.valid
    /\ DocWidth = 16
    /\ Len(Registers) = 4
    /\ Registers[1].addr_offset = 0
    /\ Registers[4].addr_offset = 6

\* a second call that follows an import which completed
C11_WitnessAfterSuccess ==
    /\ ncalls = 2
    /\ previous.fatal = ""
    /\ previous.addroffset > 0
    /\ Len(Registers) > 0
    /\ Registers[1].addr_offset = 0

====
